---- MODULE Spec2Model ----
(***************************************************************************)
(* Model of src/heuristics.rs of feroxbuster: the wildcard heuristic       *)
(* (wildcard_test, make_wildcard_request), the connectivity pre-flight     *)
(* (connectivity_test) and the file-channel helper                         *)
(* (try_send_message_to_file).                                             *)
(*                                                                         *)
(* One behaviour exercises one of the three operations (one call of        *)
(* wildcard_test or connectivity_test, or up to MaxCalls calls of          *)
(* try_send_message_to_file) under any configuration, against any server   *)
(* behaviour.  An action is the code that runs between two suspension      *)
(* points (the awaits on make_request).  A panic unwinds the task that     *)
(* runs the call; it is not a process exit.                                *)
(* The receiving end of the file channel may be closed by its owner        *)
(* between any two such steps.                                             *)
(*                                                                         *)
(* u64 values are modelled at a width of U64Bits bits: the arithmetic of   *)
(* lines 81 and 86 is the arithmetic of the Rust build, which either wraps *)
(* modulo 2^width (overflow checks off, the release profile) or panics     *)
(* (overflow checks on, the debug profile).                                *)
(***************************************************************************)
EXTENDS Integers, Sequences, FiniteSets, TLC

\* ------------------------------------------------------------------ bounds
\* width of the modelled u64
U64Bits == 8
\* each family of content lengths and of path lengths has 1 + MaxDelta members
MaxDelta == 1
\* number of classification runs the state is indexed by
MaxRuns == 2
\* longest target list given to connectivity_test
MaxTargets == 2
\* calls of try_send_message_to_file made on its own
MaxCalls == 2

\* --------------------------------------------------------- program constants
\* const UUID_LENGTH: u64 = 32
UUID_LENGTH == 32

U64Modulus == 2 ^ U64Bits
U64Max == U64Modulus - 1

\* fn unique_string(length): `length` uuids of 32 characters joined; only the
\* number of characters of the token matters to the heuristic
unique_string(length) == UUID_LENGTH * length

\* ------------------------------------------------------------ input domains
Runs == 1 .. MaxRuns

\* status codes a server answers with; CONFIGURATION.status_codes holds the
\* interesting ones
StatusCodes == {200, 301, 404}
InterestingCodes == {200, 301}

\* length of the path of a target url, with the "/" the token is joined by
TargetPathLengths == 1 .. 1 + MaxDelta

\* get_url_path_length of the url format_url builds from a target and a token
\* of `length` uuids: the target's path followed by the token
get_url_path_length(target_path_len, length) == target_path_len + unique_string(length)

\* shortest path of a url that ends in a one-uuid token: "/" and the token
MinPathLength == get_url_path_length(1, 1)

\* content lengths a server answers with: empty bodies, bodies as long as
\* the probed path, the same 64 longer, and bodies so long that adding 64
\* leaves the u64 range
LengthBases == {0, MinPathLength, MinPathLength + 2 * UUID_LENGTH,
                U64Modulus - 2 * UUID_LENGTH}
ContentLengths == { b + d : b \in LengthBases, d \in 0 .. MaxDelta }

\* the targets handed to connectivity_test; format_url rejects the last
TargetUrls == {"http://a", "http://b", "http//bad"}

\* format_url(target, "", ...) is Ok
format_url_ok(target) == target # "http//bad"

RECURSIVE SeqsUpTo(_, _)
SeqsUpTo(S, n) ==
    IF n = 0 THEN { << >> }
    ELSE LET shorter == SeqsUpTo(S, n - 1)
         IN  shorter \cup { Append(s, x) : s \in { t \in shorter : Len(t) = n - 1 }, x \in S }

\* ------------------------------------------------------------ u64 arithmetic
\* `a + b` on u64 (line 81): the build either wraps or panics
AddOverflows(a, b) == a + b > U64Max
wrapping_add(a, b) == (a + b) % U64Modulus

\* `a - b` on u64 (lines 86, 94): the build either wraps or panics
SubOverflows(a, b) == a < b
wrapping_sub(a, b) == (a - b + U64Modulus) % U64Modulus

\* ------------------------------------------------------------------ values
\* WildcardFilter::default(): size 0, dynamic 0
WildcardFilterDefault == [size |-> 0, dynamic |-> 0]

\* Option<WildcardFilter>
None == [some |-> FALSE, filter |-> WildcardFilterDefault]
Some(w) == [some |-> TRUE, filter |-> w]

\* what one call of make_wildcard_request came to.  outcome is "pending" before
\* the call has finished, "format_err" (format_url failed), "transport_err"
\* (make_request failed), "status" (the status is not an interesting one) or
\* "ok" (a FeroxResponse is returned); the other fields describe that response
NoProbe(o) == [outcome |-> o, status |-> 0, location |-> FALSE, content_length |-> 0,
               url_len |-> 0, filtered |-> FALSE]

\* a response as make_request delivers it: its status, whether it carries a
\* Location header, its content length, and what should_filter_response says
\* of it
Responses == [status : StatusCodes, location : BOOLEAN, content_length : ContentLengths,
              filtered : BOOLEAN]

\* StatusCode::is_redirection
is_redirection(status) == status \in 300 .. 399

\* a message: what it reports, the run and probe it belongs to, the number it shows
Msg(kind, r, probe, value) == [kind |-> kind, run |-> r, probe |-> probe, value |-> value]

\* --------------------------------------------------- try_send_message_to_file
\* try_send_message_to_file putting the message at the head of the queue
try_send_message_to_file_Front(ch, closed, msg, save_output) ==
    IF save_output /\ ~closed THEN << msg >> \o ch ELSE ch

\* try_send_message_to_file sending whatever save_output says
try_send_message_to_file_Always(ch, closed, msg, save_output) ==
    IF ~closed THEN Append(ch, msg) ELSE ch

\* fn try_send_message_to_file(msg, tx_file, save_output): the channel after
\* the call.  UnboundedSender::send enqueues unless the receiver is closed
try_send_message_to_file(ch, closed, msg, save_output) ==
    IF save_output /\ ~closed THEN Append(ch, msg) ELSE ch

\* the Err arm of the send: 1 when the call logs a send error
try_send_error(closed, save_output) == IF save_output /\ closed THEN 1 ELSE 0

\* SendRaises with the send unwrapped: a closed receiver aborts the caller
SendRaises_Unwrap(closed, save_output) == save_output /\ closed

\* lines 308-322: both arms of the match only log; the call raises nothing to
\* its caller, whatever the send returned
SendRaises(closed, save_output) == FALSE

RECURSIVE SendAll(_, _, _, _)
\* the calls of try_send_message_to_file a step makes, in order
SendAll(ch, closed, msgs, save_output) ==
    IF msgs = << >> THEN ch
    ELSE SendAll(try_send_message_to_file(ch, closed, Head(msgs), save_output),
                 closed, Tail(msgs), save_output)

\* !CONFIGURATION.output.is_empty()
SaveOutput(cfg) == cfg.output # ""

\* ----------------------------------------------------- make_wildcard_request
\* ProbeOutcome dropping the responses should_filter_response suppresses
ProbeOutcome_DropFiltered(cfg, resp, url_len) ==
    IF resp.status \in cfg.status_codes /\ ~resp.filtered
    THEN [outcome |-> "ok", status |-> resp.status, location |-> resp.location,
          content_length |-> resp.content_length, url_len |-> url_len,
          filtered |-> resp.filtered]
    ELSE [NoProbe("status") EXCEPT !.status = resp.status]

\* lines 179-232: the probe's outcome for a response the client delivered
ProbeOutcome(cfg, resp, url_len) ==
    IF resp.status \in cfg.status_codes
    THEN [outcome |-> "ok", status |-> resp.status, location |-> resp.location,
          content_length |-> resp.content_length, url_len |-> url_len,
          filtered |-> resp.filtered]
    ELSE [NoProbe("status") EXCEPT !.status = resp.status]

\* ProbeMessages naming the Location of any response that carries one
ProbeMessages_AnyLocation(cfg, r, n, resp) ==
    IF resp.status \notin cfg.status_codes THEN << >>
    ELSE (IF ~cfg.quiet /\ ~resp.filtered
          THEN << Msg("status", r, n, resp.content_length) >> ELSE << >>)
         \o
         (IF resp.location /\ ~cfg.quiet /\ ~resp.filtered
          THEN << Msg("redirect", r, n, resp.content_length) >> ELSE << >>)

\* lines 188-229: the advisory messages the probe emits for that response
ProbeMessages(cfg, r, n, resp) ==
    IF resp.status \notin cfg.status_codes THEN << >>
    ELSE (IF ~cfg.quiet /\ ~resp.filtered
          THEN << Msg("status", r, n, resp.content_length) >> ELSE << >>)
         \o
         (IF is_redirection(resp.status) /\ resp.location /\ ~cfg.quiet /\ ~resp.filtered
          THEN << Msg("redirect", r, n, resp.content_length) >> ELSE << >>)

\* ------------------------------------------------------------- wildcard_test
\* Classify with the size recorded before the lengths are compared
Classify_SizeFirst(wc_length, wc2_length, url_len, checks) ==
    IF wc2_length = wrapping_add(wc_length, UUID_LENGTH * 2)
    THEN [panic |-> FALSE, branch |-> "dynamic",
          filter |-> [size |-> wc_length, dynamic |-> wrapping_sub(wc_length, url_len)]]
    ELSE IF wc_length = wc2_length
    THEN [panic |-> FALSE, branch |-> "static",
          filter |-> [size |-> wc_length, dynamic |-> 0]]
    ELSE [panic |-> FALSE, branch |-> "none", filter |-> WildcardFilterDefault]

\* lines 81-127: what the two content lengths make of the filter.  branch is
\* "dynamic", "static" or "none"; panic is set when a checked build aborts on
\* the addition of line 81 or the subtraction of line 86
Classify(wc_length, wc2_length, url_len, checks) ==
    IF checks /\ AddOverflows(wc_length, UUID_LENGTH * 2)
    THEN [panic |-> TRUE, branch |-> "none", filter |-> WildcardFilterDefault]
    ELSE IF wc2_length = wrapping_add(wc_length, UUID_LENGTH * 2)
    THEN IF checks /\ SubOverflows(wc_length, url_len)
         THEN [panic |-> TRUE, branch |-> "dynamic", filter |-> WildcardFilterDefault]
         ELSE [panic |-> FALSE, branch |-> "dynamic",
               filter |-> [WildcardFilterDefault EXCEPT
                              !.dynamic = wrapping_sub(wc_length, url_len)]]
    ELSE IF wc_length = wc2_length
    THEN [panic |-> FALSE, branch |-> "static",
          filter |-> [WildcardFilterDefault EXCEPT !.size = wc_length]]
    ELSE [panic |-> FALSE, branch |-> "none", filter |-> WildcardFilterDefault]

\* SkipsTest without the early return
SkipsTest_Never(cfg) == FALSE

\* lines 52-56: dont_filter scans are not tested
SkipsTest(cfg) == cfg.dont_filter

\* FirstProbeNone returning the default filter
FirstProbeNone_Default == Some(WildcardFilterDefault)

\* lines 136-137: the first probe came to nothing
FirstProbeNone == None

\* ZeroLengthWildcard without the early return
ZeroLengthWildcard_Never(wc_length) == FALSE

\* lines 67-72: a wildcard response without a body needs no second probe
ZeroLengthWildcard(wc_length) == wc_length = 0

\* SecondProbeNone returning None
SecondProbeNone_Absent(wildcard) == None

\* lines 128-133: the second probe came to nothing; the filter is returned as
\* it stands
SecondProbeNone(wildcard) == Some(wildcard)

\* StepMessages with the classification message ahead of the probe's
StepMessages_ClassFirst(probe_msgs, class_msgs) == class_msgs \o probe_msgs

\* lines 76-127: the second probe's messages are emitted inside
\* make_wildcard_request, the classification message after it has returned
StepMessages(probe_msgs, class_msgs) == probe_msgs \o class_msgs

\* ClassifyMessages announcing the classification in quiet mode too
ClassifyMessages_Loud(cfg, r, c) ==
    IF c.panic THEN << >>
    ELSE IF c.branch = "dynamic" THEN << Msg("dynamic", r, 0, c.filter.dynamic) >>
    ELSE IF c.branch = "static" THEN << Msg("static", r, 0, c.filter.size) >>
    ELSE << >>

\* lines 88-105 and 109-126: the classification message
ClassifyMessages(cfg, r, c) ==
    IF c.panic \/ cfg.quiet THEN << >>
    ELSE IF c.branch = "dynamic" THEN << Msg("dynamic", r, 0, c.filter.dynamic) >>
    ELSE IF c.branch = "static" THEN << Msg("static", r, 0, c.filter.size) >>
    ELSE << >>


VARIABLES
    entry,          \* the operation this behaviour calls
    CONFIGURATION,  \* dont_filter, quiet, output, status_codes
    overflow_checks,\* build profile: TRUE panics on u64 overflow, FALSE wraps
    target_path,    \* per run: path length of the target_url argument
    pc,             \* per run: position in wildcard_test
    probe_one,      \* per run: outcome of make_wildcard_request(url, 1)
    probe_two,      \* per run: outcome of make_wildcard_request(url, 3)
    result,         \* per run: Option<WildcardFilter> returned
    bar,            \* per run: progress bar position
    requests,       \* per run: make_request calls issued
    printed,        \* messages given to ferox_print, in order
    chan,           \* messages enqueued on the file channel, in order
    rx_closed,      \* the receiver of the file channel has been closed
    send_errors,    \* sends that failed on a closed receiver (logged only)
    exited,         \* process::exit was called
    exit_code,      \* the status passed to process::exit
    stderr,         \* messages written by eprintln
    target_urls,    \* connectivity_test: the argument
    ct_pc,          \* connectivity_test: position
    ct_index,       \* connectivity_test: index of the target being processed
    ct_outcomes,    \* connectivity_test: what happened to each processed target
    good_urls,      \* connectivity_test: the vector being built / returned
    ts_calls,       \* try_send_message_to_file called on its own: the calls made
    server,         \* the responses the server may answer a probe with
    received        \* messages the receiver has taken off the file channel

vars == << entry, CONFIGURATION, overflow_checks, pc, probe_one, probe_two, result,
           bar, requests, printed, chan, rx_closed, send_errors, exited, exit_code,
           stderr, target_urls, ct_pc, ct_index, ct_outcomes, good_urls, ts_calls,
           target_path, server, received >>

wt_vars == << target_path, pc, probe_one, probe_two, result, bar, requests >>
ct_vars == << target_urls, ct_pc, ct_index, ct_outcomes, good_urls >>
proc_vars == << exited, exit_code, stderr >>
cfg_vars == << entry, CONFIGURATION, overflow_checks, server >>

chan_vars == << printed, chan, rx_closed, send_errors, received >>

\* the configurations a call may run under
Configurations == [dont_filter : BOOLEAN, quiet : BOOLEAN, output : {"", "out.txt"},
                   status_codes : {InterestingCodes}]

Entries == {"wildcard_test", "connectivity_test", "try_send_message_to_file"}

\* the state before the call: nothing probed, printed or sent, the receiver
\* open; run 1 is the run a wildcard_test call makes
Init ==
    /\ entry \in Entries
    /\ CONFIGURATION \in Configurations
    /\ overflow_checks \in BOOLEAN
    /\ target_path \in [Runs -> TargetPathLengths]
    /\ \A r \in Runs : r # 1 => target_path[r] = 1
    /\ pc = [r \in Runs |-> IF r = 1 /\ entry = "wildcard_test" THEN "start" ELSE "idle"]
    /\ probe_one = [r \in Runs |-> NoProbe("pending")]
    /\ probe_two = [r \in Runs |-> NoProbe("pending")]
    /\ result = [r \in Runs |-> None]
    /\ bar = [r \in Runs |-> 0]
    /\ requests = [r \in Runs |-> 0]
    /\ printed = << >>
    /\ chan = << >>
    /\ rx_closed = FALSE
    /\ send_errors = 0
    /\ exited = FALSE
    /\ exit_code = 0
    /\ stderr = << >>
    /\ target_urls \in (IF entry = "connectivity_test"
                         THEN SeqsUpTo(TargetUrls, MaxTargets) ELSE { << >> })
    /\ ct_pc = IF entry = "connectivity_test" THEN "start" ELSE "idle"
    /\ ct_index = 1
    /\ ct_outcomes = << >>
    /\ good_urls = << >>
    /\ ts_calls = << >>
    /\ server = Responses
    /\ received = << >>

\* ferox_print of each message, then try_send_message_to_file of each
Emit(msgs) ==
    /\ printed' = printed \o msgs
    /\ chan' = SendAll(chan, rx_closed, msgs, SaveOutput(CONFIGURATION))
    /\ send_errors' = send_errors
                        + Len(msgs) * try_send_error(rx_closed, SaveOutput(CONFIGURATION))
    /\ UNCHANGED << rx_closed, received >>

\* a send of one of `msgs` raises to the code that emits them
Raised(msgs) == msgs # << >> /\ SendRaises(rx_closed, SaveOutput(CONFIGURATION))

\* the task running wildcard_test is aborted by a panic
Abort(r) ==
    /\ pc' = [pc EXCEPT ![r] = "panicked"]
    /\ UNCHANGED result

\* wildcard_test returns `value`
Return(r, value) ==
    /\ result' = [result EXCEPT ![r] = value]
    /\ pc' = [pc EXCEPT ![r] = "done"]

\* lines 40-61 and 158-177: wildcard_test is entered; unless dont_filter is
\* set the first probe's url is formatted and its request is issued
WildcardTestEnter(r) ==
    /\ pc[r] = "start"
    /\ ~exited
    /\ IF SkipsTest(CONFIGURATION)
       THEN /\ Return(r, FirstProbeNone)
            /\ UNCHANGED << probe_one, requests >>
       ELSE \E format_ok \in BOOLEAN :
              IF format_ok
              THEN /\ requests' = [requests EXCEPT ![r] = @ + 1]
                   /\ pc' = [pc EXCEPT ![r] = "await_one"]
                   /\ UNCHANGED << probe_one, result >>
              ELSE /\ probe_one' = [probe_one EXCEPT ![r] = NoProbe("format_err")]
                   /\ Return(r, FirstProbeNone)
                   /\ UNCHANGED requests
    /\ UNCHANGED << target_path, probe_two, bar, chan_vars, proc_vars, ct_vars, cfg_vars,
                    ts_calls >>

\* lines 177-241 and 61-76: the first probe's request completes; on a
\* response of nonzero length the second probe's request is issued
ProbeOneResponse(r) ==
    /\ pc[r] = "await_one"
    /\ ~exited
    /\ \/ \* make_request is Err
          /\ probe_one' = [probe_one EXCEPT ![r] = NoProbe("transport_err")]
          /\ Return(r, FirstProbeNone)
          /\ UNCHANGED << probe_two, bar, requests, chan_vars >>
       \/ \E resp \in server :
            LET url_len == get_url_path_length(target_path[r], 1)
                one == ProbeOutcome(CONFIGURATION, resp, url_len)
            IN  /\ probe_one' = [probe_one EXCEPT ![r] = one]
                /\ Emit(ProbeMessages(CONFIGURATION, r, 1, resp))
                /\ IF Raised(ProbeMessages(CONFIGURATION, r, 1, resp))
                   THEN /\ Abort(r)
                        /\ UNCHANGED << probe_two, bar, requests >>
                   ELSE IF one.outcome # "ok"
                   THEN /\ Return(r, FirstProbeNone)
                        /\ UNCHANGED << probe_two, bar, requests >>
                   ELSE IF ZeroLengthWildcard(one.content_length)
                   THEN /\ bar' = [bar EXCEPT ![r] = @ + 1]
                        /\ Return(r, Some(WildcardFilterDefault))
                        /\ UNCHANGED << probe_two, requests >>
                   ELSE \E format_ok \in BOOLEAN :
                          IF format_ok
                          THEN /\ bar' = [bar EXCEPT ![r] = @ + 1]
                               /\ requests' = [requests EXCEPT ![r] = @ + 1]
                               /\ pc' = [pc EXCEPT ![r] = "await_two"]
                               /\ UNCHANGED << probe_two, result >>
                          ELSE /\ probe_two' = [probe_two EXCEPT ![r] = NoProbe("format_err")]
                               /\ bar' = [bar EXCEPT ![r] = @ + 3]
                               /\ Return(r, SecondProbeNone(WildcardFilterDefault))
                               /\ UNCHANGED requests
    /\ UNCHANGED << target_path, proc_vars, ct_vars, cfg_vars, ts_calls >>

\* lines 177-241 and 76-133: the second probe's request completes and the
\* two content lengths are compared
ProbeTwoResponse(r) ==
    /\ pc[r] = "await_two"
    /\ ~exited
    /\ \/ \* make_request is Err
          /\ probe_two' = [probe_two EXCEPT ![r] = NoProbe("transport_err")]
          /\ bar' = [bar EXCEPT ![r] = @ + 2]
          /\ Return(r, SecondProbeNone(WildcardFilterDefault))
          /\ UNCHANGED chan_vars
       \/ \E resp \in server :
            LET url_len == get_url_path_length(target_path[r], 3)
                two == ProbeOutcome(CONFIGURATION, resp, url_len)
                c == Classify(probe_one[r].content_length, two.content_length,
                              probe_one[r].url_len, overflow_checks)
                probe_msgs == ProbeMessages(CONFIGURATION, r, 2, resp)
            IN  /\ probe_two' = [probe_two EXCEPT ![r] = two]
                /\ IF Raised(probe_msgs)
                   THEN /\ Emit(probe_msgs)
                        /\ Abort(r)
                        /\ UNCHANGED bar
                   ELSE IF two.outcome # "ok"
                   THEN /\ Emit(probe_msgs)
                        /\ bar' = [bar EXCEPT ![r] = @ + 2]
                        /\ Return(r, SecondProbeNone(WildcardFilterDefault))
                   ELSE /\ bar' = [bar EXCEPT ![r] = @ + 1]
                        /\ Emit(StepMessages(probe_msgs, ClassifyMessages(CONFIGURATION, r, c)))
                        /\ IF c.panic \/ Raised(ClassifyMessages(CONFIGURATION, r, c))
                           THEN Abort(r)
                           ELSE Return(r, Some(c.filter))
    /\ UNCHANGED << target_path, probe_one, requests, proc_vars, ct_vars, cfg_vars, ts_calls >>

\* the owner of the receiver closes it (rx.close(), or the receiver is dropped)
RxClose ==
    /\ ~rx_closed
    /\ ~exited
    /\ entry = "wildcard_test" => SaveOutput(CONFIGURATION)
    /\ entry # "connectivity_test"
    /\ rx_closed' = TRUE
    /\ UNCHANGED << printed, chan, send_errors, received, wt_vars, proc_vars, ct_vars,
                    cfg_vars, ts_calls >>

\* ---------------------------------------------------------- connectivity_test
\* PushGood inserting at the front
PushGood_Front(good, target) == << target >> \o good

\* line 271: good_urls.push(target_url.to_owned())
PushGood(good, target) == Append(good, target)

\* SkipNotice printing in quiet mode too
SkipNotice_Always(cfg, out, i) == Append(out, Msg("skip", 0, i, 0))

\* lines 273-281: the transport error arm; the notice is printed unless quiet
SkipNotice(cfg, out, i) ==
    IF cfg.quiet THEN out ELSE Append(out, Msg("skip", 0, i, 0))

\* NoneReachable never holding
NoneReachable_Never(good) == FALSE

\* line 285: good_urls.is_empty()
NoneReachable(good) == good = << >>

\* lines 285-299: the loop is over; exit(1) when good_urls is empty, else return
ConnectivityFinish(good) ==
    IF NoneReachable(good)
    THEN /\ stderr' = Append(stderr, "Could not connect to any target provided")
         /\ exited' = TRUE
         /\ exit_code' = 1
         /\ ct_pc' = "exited"
    ELSE /\ ct_pc' = "returned"
         /\ UNCHANGED proc_vars

\* lines 254-267: from target i on, the targets format_url rejects are logged
\* and skipped; the index of the first one it accepts, or past the end
RECURSIVE NextRequest(_, _)
NextRequest(urls, i) ==
    IF i > Len(urls) \/ format_url_ok(urls[i]) THEN i ELSE NextRequest(urls, i + 1)

\* the outcomes recorded for the targets i .. j - 1 that format_url rejected
FormatErrors(i, j) == [k \in 1 .. (j - i) |-> "format_err"]

\* the loop runs from target i until a request is issued or the list ends;
\* `good` and `outcomes` are good_urls and the outcomes so far
ConnectivityAdvance(i, good, outcomes) ==
    LET j == NextRequest(target_urls, i)
    IN  /\ ct_index' = j
        /\ ct_outcomes' = outcomes \o FormatErrors(i, j)
        /\ good_urls' = good
        /\ IF j > Len(target_urls)
           THEN ConnectivityFinish(good)
           ELSE /\ ct_pc' = "await"
                /\ UNCHANGED proc_vars

\* lines 249-269: connectivity_test is entered
ConnectivityEnter ==
    /\ ct_pc = "start"
    /\ ~exited
    /\ ConnectivityAdvance(1, << >>, << >>)
    /\ UNCHANGED << target_urls, chan_vars, wt_vars, cfg_vars, ts_calls >>

\* lines 269-283, then the loop again: the request to target ct_index completes
ConnectivityResponse ==
    /\ ct_pc = "await"
    /\ ~exited
    /\ \/ \* Ok(_): the target is pushed as it is
          /\ printed' = printed
          /\ ConnectivityAdvance(ct_index + 1,
                                 PushGood(good_urls, target_urls[ct_index]),
                                 Append(ct_outcomes, "ok"))
       \/ \* Err(e): the target is skipped, with a notice unless quiet
          /\ printed' = SkipNotice(CONFIGURATION, printed, ct_index)
          /\ ConnectivityAdvance(ct_index + 1, good_urls,
                                 Append(ct_outcomes, "transport_err"))
    /\ UNCHANGED << target_urls, chan, rx_closed, send_errors, received, wt_vars, cfg_vars,
                    ts_calls >>

\* ------------------------------------------ try_send_message_to_file, alone
\* the messages of the calls made on their own
TestMessages == { Msg("text", 0, 0, k) : k \in 1 .. 2 }

\* lines 304-325: one call with a message and a save_output of the caller's
TrySendCall ==
    /\ entry = "try_send_message_to_file"
    /\ ~exited
    /\ Len(ts_calls) < MaxCalls
    /\ \A i \in 1 .. Len(ts_calls) : ts_calls[i].returned
    /\ \E msg \in TestMessages, save_output \in BOOLEAN :
         /\ chan' = try_send_message_to_file(chan, rx_closed, msg, save_output)
         /\ send_errors' = send_errors + try_send_error(rx_closed, save_output)
         /\ ts_calls' = Append(ts_calls, [msg |-> msg, save_output |-> save_output,
                                          closed |-> rx_closed,
                                          returned |-> ~SendRaises(rx_closed, save_output)])
    /\ UNCHANGED << printed, rx_closed, received, wt_vars, proc_vars, ct_vars, cfg_vars >>

Next ==
    \/ \E r \in Runs : WildcardTestEnter(r)
    \/ \E r \in Runs : ProbeOneResponse(r)
    \/ \E r \in Runs : ProbeTwoResponse(r)
    \/ RxClose
    \/ ConnectivityEnter
    \/ ConnectivityResponse
    \/ TrySendCall

Spec == Init /\ [][Next]_vars

\* ------------------------------------------------- concurrent classification
\* rx.recv(): the receiver takes the oldest message off the channel; messages
\* enqueued before a close are still received
RxRecv ==
    /\ chan # << >>
    /\ ~exited
    /\ received' = Append(received, Head(chan))
    /\ chan' = Tail(chan)
    /\ UNCHANGED << printed, rx_closed, send_errors, wt_vars, proc_vars, ct_vars, cfg_vars,
                    ts_calls >>

\* content lengths of the server the concurrent runs probe: one more than
\* the shortest probed path length, and 64 more than that
ConcLengths == {MinPathLength + 1, MinPathLength + 1 + 2 * UUID_LENGTH}

\* the responses of that server: wildcard pages of those lengths, or a 404
ConcResponses ==
    { resp \in Responses :
        /\ resp.content_length \in ConcLengths
        /\ resp.status \in {200, 404}
        /\ ~resp.location
        /\ ~resp.filtered }

\* every run is a wildcard_test call about to start; all of them report to
\* one file channel
InitConc ==
    /\ entry = "wildcard_test"
    /\ CONFIGURATION = [dont_filter |-> FALSE, quiet |-> FALSE, output |-> "out.txt",
                        status_codes |-> InterestingCodes]
    /\ overflow_checks \in BOOLEAN
    /\ target_path \in [Runs -> TargetPathLengths]
    /\ \A r \in Runs : r # 1 => target_path[r] = 1
    /\ pc = [r \in Runs |-> "start"]
    /\ probe_one = [r \in Runs |-> NoProbe("pending")]
    /\ probe_two = [r \in Runs |-> NoProbe("pending")]
    /\ result = [r \in Runs |-> None]
    /\ bar = [r \in Runs |-> 0]
    /\ requests = [r \in Runs |-> 0]
    /\ printed = << >>
    /\ chan = << >>
    /\ rx_closed = FALSE
    /\ send_errors = 0
    /\ exited = FALSE
    /\ exit_code = 0
    /\ stderr = << >>
    /\ target_urls = << >>
    /\ ct_pc = "idle"
    /\ ct_index = 1
    /\ ct_outcomes = << >>
    /\ good_urls = << >>
    /\ ts_calls = << >>
    /\ server = ConcResponses
    /\ received = << >>

NextConc ==
    \/ \E r \in Runs : WildcardTestEnter(r)
    \/ \E r \in Runs : ProbeOneResponse(r)
    \/ \E r \in Runs : ProbeTwoResponse(r)
    \/ RxRecv

SpecConc == InitConc /\ [][NextConc]_vars

\* ======================================================================
\* Properties
\* ======================================================================
\* the first and the second probe of run r each returned a response
FirstOk(r) == probe_one[r].outcome = "ok"
SecondOk(r) == probe_two[r].outcome = "ok"
\* a probe was made and returned nothing
Nothing(p) == p.outcome \in {"format_err", "transport_err", "status"}
\* content lengths of the two responses, path length of the first one's url
L1(r) == probe_one[r].content_length
L2(r) == probe_two[r].content_length
P(r) == probe_one[r].url_len
\* wildcard_test of run r returned `value`
Returned(r, value) == pc[r] = "done" /\ result[r] = value

\* C1: when both probes return a response and L2 = L1 + 64, wildcard_test
\* returns Some filter with size 0 and dynamic = L1 - P.
C1_DynamicOffset ==
    \A r \in Runs :
        (FirstOk(r) /\ SecondOk(r) /\ L2(r) = L1(r) + 2 * UUID_LENGTH)
            => Returned(r, Some([size |-> 0, dynamic |-> L1(r) - P(r)]))

\* C2: when both probes return a response and L2 = L1, wildcard_test returns
\* Some filter with size L1 and dynamic 0.
C2_StaticSize ==
    \A r \in Runs :
        (FirstOk(r) /\ SecondOk(r) /\ L2(r) = L1(r))
            => Returned(r, Some([size |-> L1(r), dynamic |-> 0]))

\* C3: when the first probe returns a response of content length 0,
\* wildcard_test returns Some default filter, the run has issued exactly one
\* request and no second probe is made.
C3_ZeroLengthOneRequest ==
    \A r \in Runs :
        (FirstOk(r) /\ L1(r) = 0)
            => /\ Returned(r, Some(WildcardFilterDefault))
               /\ requests[r] = 1
               /\ probe_two[r] = NoProbe("pending")

C3_Witness ==
    \E r \in Runs : FirstOk(r) /\ L1(r) = 0 /\ pc[r] = "done" /\ result[r].some

\* C4: when both probes return a response and neither L2 = L1 + 64 nor
\* L2 = L1, wildcard_test returns Some filter with size 0 and dynamic 0.
C4_Unclassified ==
    \A r \in Runs :
        (FirstOk(r) /\ SecondOk(r) /\ L2(r) # L1(r) + 2 * UUID_LENGTH /\ L2(r) # L1(r))
            => Returned(r, Some(WildcardFilterDefault))

\* C5: when the first probe returns a response of nonzero length and the
\* second probe returns nothing, wildcard_test returns Some default filter.
C5_SecondProbeNothing ==
    \A r \in Runs :
        (FirstOk(r) /\ L1(r) # 0 /\ Nothing(probe_two[r]))
            => Returned(r, Some(WildcardFilterDefault))

C5_Witness ==
    \E r \in Runs :
        /\ FirstOk(r) /\ L1(r) # 0 /\ probe_two[r].outcome = "status"
        /\ pc[r] = "done" /\ requests[r] = 2

\* C6: when the first probe returns nothing, wildcard_test returns None, no
\* second probe is made (at most the first request was issued) and the
\* process has not exited.
C6_FirstProbeNothing ==
    \A r \in Runs :
        Nothing(probe_one[r])
            => /\ Returned(r, None)
               /\ probe_two[r] = NoProbe("pending")
               /\ requests[r] = (IF probe_one[r].outcome = "format_err" THEN 0 ELSE 1)
               /\ ~exited

C6_Witness ==
    \E r \in Runs : probe_one[r].outcome = "status" /\ pc[r] = "done" /\ requests[r] = 1

\* C7: with dont_filter set, wildcard_test returns None, issues no request
\* and emits no message.
C7_DontFilter ==
    (entry = "wildcard_test" /\ CONFIGURATION.dont_filter)
        => /\ \A r \in Runs : requests[r] = 0 /\ pc[r] \notin {"await_one", "await_two"}
           /\ \A r \in Runs : pc[r] = "done" => result[r] = None
           /\ printed = << >>
           /\ chan = << >>

C7_Witness ==
    /\ entry = "wildcard_test" /\ CONFIGURATION.dont_filter
    /\ ~CONFIGURATION.quiet /\ SaveOutput(CONFIGURATION)
    /\ \E r \in Runs : pc[r] = "done"

\* C8: in every filter wildcard_test returns, at most one of size and
\* dynamic is nonzero.
C8_AtMostOneNonzero ==
    \A r \in Runs :
        (pc[r] = "done" /\ result[r].some)
            => (result[r].filter.size = 0 \/ result[r].filter.dynamic = 0)

C8_Witness ==
    \E r \in Runs :
        /\ pc[r] = "done" /\ result[r].some /\ SecondOk(r)
        /\ result[r].filter.dynamic # 0

\* the targets of `urls` whose outcome is "ok", in order
RECURSIVE Reachable(_, _)
Reachable(urls, outcomes) ==
    IF urls = << >> THEN << >>
    ELSE (IF Head(outcomes) = "ok" THEN << Head(urls) >> ELSE << >>)
         \o Reachable(Tail(urls), Tail(outcomes))

\* C9: when connectivity_test returns, every target has been processed and
\* the result is the targets whose request succeeded, in the order of the
\* argument.
C9_ReachableSubsequence ==
    ct_pc = "returned"
        => /\ Len(ct_outcomes) = Len(target_urls)
           /\ good_urls = Reachable(target_urls, ct_outcomes)

C9_Witness ==
    /\ ct_pc = "returned"
    /\ Len(target_urls) = 2
    /\ ct_outcomes = << "transport_err", "ok" >>

\* C10: connectivity_test exits, with status 1, exactly when it has processed
\* every target and none was reachable; otherwise it returns.  No call of
\* wildcard_test or try_send_message_to_file exits the process.
C10_ExitOnlyWhenNoneReachable ==
    /\ exited <=> ct_pc = "exited"
    /\ exited => exit_code = 1
    /\ ct_pc \in {"exited", "returned"}
          => /\ Len(ct_outcomes) = Len(target_urls)
             /\ (ct_pc = "exited") <=> (\A i \in 1 .. Len(ct_outcomes) : ct_outcomes[i] # "ok")
    /\ entry # "connectivity_test" => ~exited

C10_Witness ==
    /\ exited
    /\ Len(target_urls) = 2
    /\ ct_outcomes = << "format_err", "transport_err" >>

\* the "could not connect, skipping" notices for the targets k = i .. whose
\* outcome is one of `failures`, in order
RECURSIVE SkipsFor(_, _, _)
SkipsFor(outcomes, i, failures) ==
    IF i > Len(outcomes) THEN << >>
    ELSE (IF outcomes[i] \in failures THEN << Msg("skip", 0, i, 0) >> ELSE << >>)
         \o SkipsFor(outcomes, i + 1, failures)

\* C11 as claimed: connectivity_test prints a skip notice for every target
\* that fails, by format error or by transport error, unless quiet; in quiet
\* mode it prints none.
C11_SkipForEveryFailure ==
    entry = "connectivity_test"
        => printed = (IF CONFIGURATION.quiet THEN << >>
                      ELSE SkipsFor(ct_outcomes, 1, {"format_err", "transport_err"}))

\* C11 as amended: connectivity_test prints a skip notice for every target
\* whose request fails with a transport error, unless quiet; it prints none
\* for a target format_url rejects, and none in quiet mode.
C11_SkipForTransportErrors ==
    entry = "connectivity_test"
        => printed = (IF CONFIGURATION.quiet THEN << >>
                      ELSE SkipsFor(ct_outcomes, 1, {"transport_err"}))

C11_Witness ==
    /\ entry = "connectivity_test" /\ ~CONFIGURATION.quiet
    /\ ct_outcomes = << "format_err", "transport_err" >>
    /\ printed = << Msg("skip", 0, 2, 0) >>

\* the messages of the calls of `calls` made with save_output set while the
\* receiver was open, in order
RECURSIVE DeliveredOf(_)
DeliveredOf(calls) ==
    IF calls = << >> THEN << >>
    ELSE (IF Head(calls).save_output /\ ~Head(calls).closed
          THEN << Head(calls).msg >> ELSE << >>) \o DeliveredOf(Tail(calls))

\* C12: each call of try_send_message_to_file with save_output set and the
\* receiver open appends its message, unmodified, to the channel, and each
\* call with save_output unset leaves the channel as it was: the channel
\* holds exactly the messages of the former calls, in call order.
C12_Delivery ==
    entry = "try_send_message_to_file" => chan = DeliveredOf(ts_calls)

C12_Witness ==
    /\ Len(ts_calls) = 2
    /\ ts_calls[1].save_output /\ ~ts_calls[1].closed
    /\ ~ts_calls[2].save_output /\ ~ts_calls[2].closed
    /\ chan = << ts_calls[1].msg >>

\* where run r stands, and what it returned, as its own inputs determine
\* them: dont_filter, the build's overflow checks, the outcome of each probe,
\* the two content lengths and the first url's path length.  Nothing else
\* (quiet, output, should_filter_response, the receiver, other runs) is read.
RunAsAlone(r) ==
    IF probe_one[r].outcome = "pending"
    THEN \/ pc[r] \in {"idle", "start", "await_one"}
         \/ CONFIGURATION.dont_filter /\ Returned(r, None)
    ELSE IF Nothing(probe_one[r]) THEN Returned(r, None)
    ELSE IF L1(r) = 0 THEN Returned(r, Some(WildcardFilterDefault))
    ELSE IF probe_two[r].outcome = "pending" THEN pc[r] = "await_two"
    ELSE IF Nothing(probe_two[r]) THEN Returned(r, Some(WildcardFilterDefault))
    ELSE IF overflow_checks /\ L1(r) + 2 * UUID_LENGTH > U64Max THEN pc[r] = "panicked"
    ELSE IF L2(r) = (L1(r) + 2 * UUID_LENGTH) % U64Modulus
    THEN IF L1(r) >= P(r)
         THEN Returned(r, Some([size |-> 0, dynamic |-> L1(r) - P(r)]))
         ELSE IF overflow_checks THEN pc[r] = "panicked"
         ELSE Returned(r, Some([size |-> 0, dynamic |-> U64Modulus - (P(r) - L1(r))]))
    ELSE IF L2(r) = L1(r) THEN Returned(r, Some([size |-> L1(r), dynamic |-> 0]))
    ELSE Returned(r, Some(WildcardFilterDefault))

\* the number of calls of `calls` that satisfy save_output and closed = c
RECURSIVE SavingCalls(_, _)
SavingCalls(calls, c) ==
    IF calls = << >> THEN 0
    ELSE (IF Head(calls).save_output /\ Head(calls).closed = c THEN 1 ELSE 0)
         + SavingCalls(Tail(calls), c)

\* C13: a call of try_send_message_to_file with save_output set and the
\* receiver closed returns to its caller (the send error is only logged),
\* enqueues nothing and does not exit the process; and a wildcard_test run
\* during which the receiver has been closed stands where, and returns what,
\* its inputs determine, as with the receiver open.
C13_ClosedReceiver ==
    /\ entry = "try_send_message_to_file"
          => /\ \A i \in 1 .. Len(ts_calls) : ts_calls[i].returned
             /\ send_errors = SavingCalls(ts_calls, TRUE)
             /\ Len(chan) = SavingCalls(ts_calls, FALSE)
             /\ ~exited
    /\ (entry = "wildcard_test" /\ rx_closed) => \A r \in Runs : RunAsAlone(r)

C13_Witness ==
    /\ Len(ts_calls) = 2
    /\ ts_calls[1].save_output /\ ts_calls[1].closed /\ ts_calls[1].returned
    /\ ts_calls[2].save_output /\ ts_calls[2].closed /\ ts_calls[2].returned
    /\ chan = << >>
    /\ send_errors = 2

\* a run that classified the wildcard as static while every send failed
C13_WitnessRun ==
    /\ rx_closed /\ pc[1] = "done" /\ SecondOk(1) /\ result[1].filter.size # 0
    /\ send_errors = 3

\* the place of a message in a run: the first probe's messages, the second
\* probe's, the classification message
Rank(m) == IF m.kind \in {"dynamic", "static"} THEN 3 ELSE m.probe

\* the messages of run r appear in `msgs` in the order of their ranks, the
\* classification message at most once
InRunOrder(msgs, r) ==
    \A i, j \in 1 .. Len(msgs) :
        (i < j /\ msgs[i].run = r /\ msgs[j].run = r)
            => /\ Rank(msgs[i]) <= Rank(msgs[j])
               /\ Rank(msgs[i]) # 3

\* C14: within a run the second probe's request is not issued before the
\* first probe's response has been received and inspected (it is issued only
\* for a first response of nonzero length), the first probe's messages
\* precede the second probe's, and the classification message comes last,
\* on the terminal and on the file channel.
C14_SequentialProbes ==
    \A r \in Runs :
        /\ pc[r] = "await_one" => requests[r] = 1
        /\ requests[r] = 2 => (FirstOk(r) /\ L1(r) # 0)
        /\ requests[r] \in 0 .. 2
        /\ probe_two[r].outcome # "pending" => FirstOk(r)
        /\ InRunOrder(printed, r)
        /\ InRunOrder(chan, r)

C14_Witness ==
    /\ Len(printed) = 5
    /\ printed[1].kind = "status" /\ printed[1].probe = 1
    /\ printed[2].kind = "redirect" /\ printed[2].probe = 1
    /\ printed[3].kind = "status" /\ printed[3].probe = 2
    /\ printed[4].kind = "redirect" /\ printed[4].probe = 2
    /\ printed[5].kind = "dynamic"
    /\ chan = printed

\* the requests run r has issued, as the outcomes of its probes determine
RequestsAsAlone(r) ==
    IF probe_one[r].outcome = "pending" THEN (IF pc[r] = "await_one" THEN 1 ELSE 0)
    ELSE IF probe_one[r].outcome = "format_err" THEN 0
    ELSE IF pc[r] = "await_two" \/ probe_two[r].outcome \in {"transport_err", "status", "ok"}
    THEN 2
    ELSE 1

\* a probe returns a response exactly when the client delivered one whose
\* status is an interesting one
OutcomeByStatus(p) ==
    /\ p.outcome = "ok" => p.status \in CONFIGURATION.status_codes
    /\ p.outcome = "status" => p.status \notin CONFIGURATION.status_codes

\* C15: what wildcard_test returns and how many requests it issues are
\* functions of dont_filter, the probes' transport outcomes, statuses and
\* content lengths and the first url's path length alone; quiet, the output
\* path and should_filter_response do not enter them.
C15_AdvisoryFlagsDoNotClassify ==
    \A r \in Runs :
        /\ RunAsAlone(r)
        /\ requests[r] = RequestsAsAlone(r)
        /\ OutcomeByStatus(probe_one[r])
        /\ OutcomeByStatus(probe_two[r])

C15_Witness ==
    \E r \in Runs :
        /\ pc[r] = "done" /\ SecondOk(r)
        /\ probe_one[r].filtered /\ ~probe_two[r].filtered
        /\ ~CONFIGURATION.quiet /\ SaveOutput(CONFIGURATION)
        /\ result[r].filter.dynamic # 0
        /\ requests[r] = 2

\* the same classification reached in quiet mode without an output path
C15_WitnessQuiet ==
    \E r \in Runs :
        /\ pc[r] = "done" /\ SecondOk(r)
        /\ ~probe_one[r].filtered /\ probe_two[r].filtered
        /\ CONFIGURATION.quiet /\ ~SaveOutput(CONFIGURATION)
        /\ result[r].filter.dynamic # 0
        /\ requests[r] = 2

\* the messages of `msgs` that probe n of run r emitted
ProbeMessagesIn(msgs, r, n) ==
    LET Mine(m) == m.run = r /\ m.probe = n /\ m.kind \in {"status", "redirect"}
    IN  SelectSeq(msgs, Mine)

\* C16: a probe that returns a response emits, when quiet is off and
\* should_filter_response is false, one status message, followed by one
\* redirect message exactly when the status is a redirection and a Location
\* header is present; it emits nothing in quiet mode, for a suppressed
\* response, or when it returns nothing.  Nothing reaches the file channel
\* without an output path; with one and the receiver open, every message does.
C16_ProbeAdvisories ==
    /\ \A r \in Runs :
         /\ \A n \in 1 .. 2 :
              LET p == IF n = 1 THEN probe_one[r] ELSE probe_two[r]
                  emitted == ProbeMessagesIn(printed, r, n)
              IN  IF p.outcome = "ok" /\ ~CONFIGURATION.quiet /\ ~p.filtered
                  THEN IF is_redirection(p.status) /\ p.location
                       THEN emitted = << Msg("status", r, n, p.content_length),
                                         Msg("redirect", r, n, p.content_length) >>
                       ELSE emitted = << Msg("status", r, n, p.content_length) >>
                  ELSE emitted = << >>
    /\ entry = "wildcard_test"
          => /\ ~SaveOutput(CONFIGURATION) => chan = << >>
             /\ (SaveOutput(CONFIGURATION) /\ ~rx_closed) => chan = printed

C16_Witness ==
    \E r \in Runs :
        /\ SecondOk(r) /\ ~CONFIGURATION.quiet
        /\ probe_one[r].status = 301 /\ probe_one[r].location /\ ~probe_one[r].filtered
        /\ probe_two[r].status = 200 /\ probe_two[r].location /\ ~probe_two[r].filtered
        /\ Len(ProbeMessagesIn(printed, r, 1)) = 2
        /\ Len(ProbeMessagesIn(printed, r, 2)) = 1
        /\ chan = printed /\ chan # << >>

\* the classification messages of run r in `msgs`
ClassMessagesIn(msgs, r) ==
    LET Mine(m) == m.run = r /\ m.kind \in {"dynamic", "static"}
    IN  SelectSeq(msgs, Mine)

\* C17 as claimed: whenever both probes return a response and L2 = L1 + 64
\* or L2 = L1, exactly one classification message is emitted; in every other
\* outcome none is.
C17_ClassificationAnnounced ==
    \A r \in Runs :
        IF FirstOk(r) /\ SecondOk(r)
           /\ (L2(r) = L1(r) + 2 * UUID_LENGTH \/ L2(r) = L1(r))
        THEN Len(ClassMessagesIn(printed, r)) = 1
        ELSE ClassMessagesIn(printed, r) = << >>

\* C17 as amended: when quiet is off and wildcard_test returns from the
\* dynamic branch (L2 equal to L1 + 64 as the u64 comparison computes it) or
\* from the static branch, it has emitted exactly one classification
\* message, reporting the offset or the static size; in quiet mode, in the
\* zero-length, second-probe-missing and unclassified outcomes, and in a run
\* that aborted, it has emitted none.
C17_ClassificationAnnouncedUnlessQuiet ==
    \A r \in Runs :
        LET classified == pc[r] = "done" /\ FirstOk(r) /\ SecondOk(r)
                          /\ ~CONFIGURATION.quiet
            emitted == ClassMessagesIn(printed, r)
        IN  IF classified /\ L2(r) = (L1(r) + 2 * UUID_LENGTH) % U64Modulus
            THEN emitted = << Msg("dynamic", r, 0, result[r].filter.dynamic) >>
            ELSE IF classified /\ L2(r) = L1(r)
            THEN emitted = << Msg("static", r, 0, L1(r)) >>
            ELSE emitted = << >>

C17_Witness ==
    \E r \in Runs :
        /\ pc[r] = "done" /\ SecondOk(r) /\ ~CONFIGURATION.quiet
        /\ L2(r) = L1(r)
        /\ ClassMessagesIn(printed, r) = << Msg("static", r, 0, result[r].filter.size) >>
        /\ result[r].filter.size # 0

\* the same classification in quiet mode: nothing is announced
C17_WitnessQuiet ==
    \E r \in Runs :
        /\ pc[r] = "done" /\ SecondOk(r) /\ CONFIGURATION.quiet
        /\ result[r].filter.size # 0
        /\ printed = << >>

\* the messages of run r in `msgs`, in the order they appear there
MessagesOf(msgs, r) ==
    LET Mine(m) == m.run = r
    IN  SelectSeq(msgs, Mine)

\* the advisory messages of probe n of run r, as its outcome determines them
AdvisoriesAsAlone(r, n) ==
    LET p == IF n = 1 THEN probe_one[r] ELSE probe_two[r]
    IN  IF p.outcome = "ok" /\ ~CONFIGURATION.quiet /\ ~p.filtered
        THEN << Msg("status", r, n, p.content_length) >>
             \o (IF is_redirection(p.status) /\ p.location
                 THEN << Msg("redirect", r, n, p.content_length) >> ELSE << >>)
        ELSE << >>

\* the messages run r has sent so far, as its own probes determine them when
\* no other run exists
MessagesAsAlone(r) ==
    AdvisoriesAsAlone(r, 1) \o AdvisoriesAsAlone(r, 2)
    \o (IF pc[r] = "done" /\ FirstOk(r) /\ SecondOk(r) /\ ~CONFIGURATION.quiet
        THEN IF L2(r) = (L1(r) + 2 * UUID_LENGTH) % U64Modulus
             THEN << Msg("dynamic", r, 0, (L1(r) + U64Modulus - P(r)) % U64Modulus) >>
             ELSE IF L2(r) = L1(r) THEN << Msg("static", r, 0, L1(r)) >>
             ELSE << >>
        ELSE << >>)

\* C18: when several wildcard_test runs interleave on one file channel, each
\* run returns the filter its own probes determine, exactly as it would
\* alone, and the receiver observes (in what it has received followed by
\* what is still queued) every run's messages exactly once and in the order
\* that run sent them; the terminal shows the same.
C18_ConcurrentRuns ==
    \A r \in Runs :
        /\ RunAsAlone(r)
        /\ requests[r] = RequestsAsAlone(r)
        /\ MessagesOf(printed, r) = MessagesAsAlone(r)
        /\ (SaveOutput(CONFIGURATION) /\ ~rx_closed)
              => MessagesOf(received \o chan, r) = MessagesAsAlone(r)

\* two runs whose messages interleave on the channel, the receiver having
\* taken some of them, one run classified dynamic and the other static
C18_Witness ==
    \E r, q \in Runs :
        /\ r # q /\ pc[r] = "done" /\ pc[q] = "done"
        /\ SecondOk(r) /\ SecondOk(q)
        /\ result[r] = Some([size |-> 0, dynamic |-> L1(r) - P(r)]) /\ L1(r) > P(r)
        /\ result[q] = Some([size |-> L1(q), dynamic |-> 0])
        /\ Len(received) = 3 /\ Len(chan) = 3
        /\ received[1].run = r /\ received[2].run = q /\ received[3].run = r
        /\ chan[1].run = r /\ chan[2].run = q /\ chan[3].run = q
        /\ chan[1].kind = "dynamic" /\ chan[3].kind = "static"

\* C19: whenever the two content lengths are compared the u64 addition
\* L1 + 64 does not overflow, and whenever the dynamic branch is taken L1 is
\* at least P, so the u64 subtraction L1 - P does not underflow.
C19_ArithmeticInRange ==
    \A r \in Runs :
        SecondOk(r)
            => /\ L1(r) + 2 * UUID_LENGTH <= U64Max
               /\ L2(r) = (L1(r) + 2 * UUID_LENGTH) % U64Modulus => L1(r) >= P(r)

\* C20: whenever wildcard_test has taken the dynamic or the static branch it
\* returns a filter that marks the first probe's own response: size is
\* nonzero and equals L1, or dynamic is nonzero and dynamic + P equals L1.
C20_FilterActionable ==
    \A r \in Runs :
        (/\ pc[r] \in {"done", "panicked"}
         /\ SecondOk(r)
         /\ (L2(r) = (L1(r) + 2 * UUID_LENGTH) % U64Modulus \/ L2(r) = L1(r)))
            => /\ pc[r] = "done"
               /\ result[r].some
               /\ \/ result[r].filter.size # 0 /\ result[r].filter.size = L1(r)
                  \/ /\ result[r].filter.dynamic # 0
                     /\ result[r].filter.dynamic + P(r) = L1(r)

====
